---- MODULE Spec2Model ----
(***************************************************************************)
(* Model of geozero-core/src/wkb_reader.rs: the three header decoders      *)
(* (OGC WKB, EWKB, GPKG), the coordinate reader and the recursive geometry *)
(* walker that drives a GeomProcessor.                                     *)
(*                                                                         *)
(* Representation of machine values:                                       *)
(*   - a byte is an integer 0..255; the input is a sequence of bytes;      *)
(*   - a u32 is the tuple of its 4 bytes, most significant first, so that  *)
(*     all 2^32 values are representable and the arithmetic on it          *)
(*     (% 1000, / 1000, & mask) keeps its 32-bit width;                    *)
(*   - an i32 is an integer in -2^31 .. 2^31-1;                            *)
(*   - an f64 is the tuple of its 8 bytes (its IEEE-754 bit pattern), most *)
(*     significant first.                                                  *)
(***************************************************************************)
EXTENDS Integers, Sequences, FiniteSets, TLC

VARIABLES
    stream,       \* the bytes behind `raw` (never modified)
    pos,          \* number of bytes of `raw` consumed so far
    dims,         \* processor.dimensions(): [z, m]
    read_header,  \* the decoder handed to process_wkb_geom_n by the entry point
    stack,        \* call stack of the walker, innermost frame last
    calls,        \* processor callbacks made so far, in order
    reads,        \* history: body reads (counts, ordinates) made so far
    hdrs,         \* history: header decodes attempted so far
    result,       \* "running", or what the entry point returned
    procErr       \* history: the first failure a callback returned, if any

vars == <<stream, pos, dims, read_header, stack, calls, reads, hdrs, result, procErr>>

(***************************************************************************)
(* Primitive reads: scroll::IOread on a std::io::Read                      *)
(***************************************************************************)

Reverse(s) == [i \in 1..Len(s) |-> s[Len(s) + 1 - i]]

\* Bytes p+1 .. p+w of s in stream order (requires p + w <= Len(s)).
Take(s, p, w) == [i \in 1..w |-> s[p + i]]

\* The w bytes at offset p as a most-significant-first tuple.
Ordered(s, p, w, endian) ==
    IF endian = "BE" THEN Take(s, p, w) ELSE Reverse(Take(s, p, w))

NoRead == [ok |-> FALSE, v |-> <<>>, pos |-> 0]

\* raw.ioread::<u8>()
ioread_u8(s, p) ==
    IF p + 1 <= Len(s) THEN [ok |-> TRUE, v |-> <<s[p + 1]>>, pos |-> p + 1]
    ELSE NoRead

\* Mutant: the u32 is read without being consumed.
ioread_u32_peek(s, p, endian) ==
    IF p + 4 <= Len(s) THEN [ok |-> TRUE, v |-> Ordered(s, p, 4, endian), pos |-> p]
    ELSE NoRead

\* raw.ioread_with::<u32>(endian)
ioread_u32(s, p, endian) ==
    IF p + 4 <= Len(s) THEN [ok |-> TRUE, v |-> Ordered(s, p, 4, endian), pos |-> p + 4]
    ELSE NoRead

\* Two's-complement value of a most-significant-first 4-byte tuple.
AsI32(t) ==
    (IF t[1] >= 128 THEN t[1] - 256 ELSE t[1]) * 16777216
        + t[2] * 65536 + t[3] * 256 + t[4]

\* raw.ioread_with::<i32>(endian)
ioread_i32(s, p, endian) ==
    IF p + 4 <= Len(s)
    THEN [ok |-> TRUE, v |-> <<AsI32(Ordered(s, p, 4, endian))>>, pos |-> p + 4]
    ELSE NoRead

\* raw.ioread_with::<f64>(endian)
ioread_f64(s, p, endian) ==
    IF p + 8 <= Len(s) THEN [ok |-> TRUE, v |-> Ordered(s, p, 8, endian), pos |-> p + 8]
    ELSE NoRead

(***************************************************************************)
(* u32 arithmetic on most-significant-first byte tuples                    *)
(***************************************************************************)

\* type_id % 1000, by Horner's rule so that no intermediate exceeds 32 bits.
U32Mod1000(t) ==
    LET r1 == t[1] % 1000
        r2 == (r1 * 256 + t[2]) % 1000
        r3 == (r2 * 256 + t[3]) % 1000
    IN  (r3 * 256 + t[4]) % 1000

\* type_id / 1000, by long division in base 256.
U32Div1000(t) ==
    LET r1 == t[1] % 1000
        q1 == t[1] \div 1000
        r2 == (r1 * 256 + t[2]) % 1000
        q2 == q1 * 256 + (r1 * 256 + t[2]) \div 1000
        r3 == (r2 * 256 + t[3]) % 1000
        q3 == q2 * 256 + (r2 * 256 + t[3]) \div 1000
    IN  q3 * 256 + (r3 * 256 + t[4]) \div 1000

\* type_id & 0xFF
U32LowByte(t) == t[4]

\* type_id & mask == mask, for a mask with one bit set in the top byte
\* (bit is that byte's bit value: 128, 64 or 32).
U32TopBit(t, bit) == (t[1] \div bit) % 2 = 1

\* i < n for a loop index i (below 2^24) and a u32 n cast to usize.
InRange(i, n) ==
    \/ n[1] > 0
    \/ i < n[2] * 65536 + n[3] * 256 + n[4]

(***************************************************************************)
(* WKBGeometryType                                                         *)
(***************************************************************************)

from_u32(value) ==
    CASE value = 1 -> "Point"
      [] value = 2 -> "LineString"
      [] value = 3 -> "Polygon"
      [] value = 17 -> "Triangle"
      [] value = 4 -> "MultiPoint"
      [] value = 5 -> "MultiLineString"
      [] value = 6 -> "MultiPolygon"
      [] value = 7 -> "GeometryCollection"
      [] value = 15 -> "PolyhedralSurface"
      [] value = 16 -> "TIN"
      [] value = 1001 -> "PointZ"
      [] value = 1002 -> "LineStringZ"
      [] value = 1003 -> "PolygonZ"
      [] value = 1017 -> "Trianglez"
      [] value = 1004 -> "MultiPointZ"
      [] value = 1005 -> "MultiLineStringZ"
      [] value = 1006 -> "MultiPolygonZ"
      [] value = 1007 -> "GeometryCollectionZ"
      [] value = 1015 -> "PolyhedralSurfaceZ"
      [] value = 1016 -> "TINZ"
      [] value = 2001 -> "PointM"
      [] value = 2002 -> "LineStringM"
      [] value = 2003 -> "PolygonM"
      [] value = 2017 -> "TriangleM"
      [] value = 2004 -> "MultiPointM"
      [] value = 2005 -> "MultiLineStringM"
      [] value = 2006 -> "MultiPolygonM"
      [] value = 2007 -> "GeometryCollectionM"
      [] value = 2015 -> "PolyhedralSurfaceM"
      [] value = 2016 -> "TINM"
      [] value = 3001 -> "PointZM"
      [] value = 3002 -> "LineStringZM"
      [] value = 3003 -> "PolygonZM"
      [] value = 3017 -> "TriangleZM"
      [] value = 3004 -> "MultiPointZM"
      [] value = 3005 -> "MultiLineStringZM"
      [] value = 3006 -> "MultiPolygonZM"
      [] value = 3007 -> "GeometryCollectionZM"
      [] value = 3015 -> "PolyhedralSurfaceZM"
      [] value = 3016 -> "TinZM"
      [] OTHER -> "Unknown"

\* WKBByteOrder::XDR as u8
XDR == 0

(***************************************************************************)
(* Header decoders.  Each returns [res, info, pos]: res is "Ok", "IoError" *)
(* or "GeometryFormat"; info is the WkbInfo (meaningful when res = "Ok");  *)
(* pos is the stream offset after the call.                                *)
(***************************************************************************)

WkbInfo(endian, base_type, has_z, has_m, srid, envelope) ==
    [endian |-> endian, base_type |-> base_type, has_z |-> has_z,
     has_m |-> has_m, srid |-> srid, envelope |-> envelope]

None == <<>>
Some(v) == <<v>>

NoInfo == WkbInfo("BE", "Unknown", FALSE, FALSE, None, <<>>)

HeaderErr(res, p) == [res |-> res, info |-> NoInfo, pos |-> p]

\* Mutant: little-endian only for the byte 1 (NDR), big-endian otherwise.
EndianOfNdrOnly(byte_order) == IF byte_order = 1 THEN "LE" ELSE "BE"

\* if byte_order == WKBByteOrder::XDR as u8 { BE } else { LE }
EndianOf(byte_order) == IF byte_order = XDR THEN "BE" ELSE "LE"

read_wkb_header(s, p) ==
    LET bo == ioread_u8(s, p) IN
    IF ~bo.ok THEN HeaderErr("IoError", p) ELSE
    LET endian == EndianOf(bo.v[1])
        ty == ioread_u32(s, bo.pos, endian)
    IN
    IF ~ty.ok THEN HeaderErr("IoError", bo.pos) ELSE
    LET type_id == ty.v
        base_type == from_u32(U32Mod1000(type_id))
        type_id_dim == U32Div1000(type_id)
        has_z == type_id_dim = 1 \/ type_id_dim = 3
        has_m == type_id_dim = 2 \/ type_id_dim = 3
    IN  [res |-> "Ok",
         info |-> WkbInfo(endian, base_type, has_z, has_m, None, <<>>),
         pos |-> ty.pos]

\* Mutant: the SRID is read in little-endian order whatever the header says.
read_ewkb_header_native_srid(s, p) ==
    LET bo == ioread_u8(s, p) IN
    IF ~bo.ok THEN HeaderErr("IoError", p) ELSE
    LET endian == EndianOf(bo.v[1])
        ty == ioread_u32(s, bo.pos, endian)
    IN
    IF ~ty.ok THEN HeaderErr("IoError", bo.pos) ELSE
    LET type_id == ty.v
        base_type == from_u32(U32LowByte(type_id))
        has_z == U32TopBit(type_id, 128)
        has_m == U32TopBit(type_id, 64)
    IN
    IF U32TopBit(type_id, 32)
    THEN LET sr == ioread_i32(s, ty.pos, "LE") IN
         IF ~sr.ok THEN HeaderErr("IoError", ty.pos)
         ELSE [res |-> "Ok",
               info |-> WkbInfo(endian, base_type, has_z, has_m, Some(sr.v[1]), <<>>),
               pos |-> sr.pos]
    ELSE [res |-> "Ok",
          info |-> WkbInfo(endian, base_type, has_z, has_m, None, <<>>),
          pos |-> ty.pos]

read_ewkb_header(s, p) ==
    LET bo == ioread_u8(s, p) IN
    IF ~bo.ok THEN HeaderErr("IoError", p) ELSE
    LET endian == EndianOf(bo.v[1])
        ty == ioread_u32(s, bo.pos, endian)
    IN
    IF ~ty.ok THEN HeaderErr("IoError", bo.pos) ELSE
    LET type_id == ty.v
        base_type == from_u32(U32LowByte(type_id))
        has_z == U32TopBit(type_id, 128)
        has_m == U32TopBit(type_id, 64)
    IN
    IF U32TopBit(type_id, 32)
    THEN LET sr == ioread_i32(s, ty.pos, endian) IN
         IF ~sr.ok THEN HeaderErr("IoError", ty.pos)
         ELSE [res |-> "Ok",
               info |-> WkbInfo(endian, base_type, has_z, has_m, Some(sr.v[1]), <<>>),
               pos |-> sr.pos]
    ELSE [res |-> "Ok",
          info |-> WkbInfo(endian, base_type, has_z, has_m, None, <<>>),
          pos |-> ty.pos]

\* Mutant: selector 3 announces 8 doubles and selector 5 is accepted.
env_len_shifted(flags) ==
    LET sel == (flags \div 2) % 8 IN
    CASE sel = 0 -> 0
      [] sel = 1 -> 4
      [] sel = 2 -> 6
      [] sel = 3 -> 8
      [] sel = 4 -> 8
      [] sel = 5 -> 8
      [] OTHER -> -1

\* match (flags & 0b0000_1110) >> 1 { 0 => 0, 1 => 4, 2 => 6, 3 => 6, 4 => 8, _ => Err }
\* (-1 stands for the rejecting arm)
env_len(flags) ==
    LET sel == (flags \div 2) % 8 IN
    CASE sel = 0 -> 0
      [] sel = 1 -> 4
      [] sel = 2 -> 6
      [] sel = 3 -> 6
      [] sel = 4 -> 8
      [] OTHER -> -1

\* if flags & 0b0000_0001 == 0 { BE } else { LE }
FlagsEndian(flags) == IF flags % 2 = 0 THEN "BE" ELSE "LE"

\* Mutant: a failed envelope read is dropped; the envelope holds the doubles
\* that could be read.
read_envelope_lenient(s, p, n, endian) ==
    LET got == IF p + 8 * n <= Len(s) THEN n
               ELSE IF Len(s) >= p THEN (Len(s) - p) \div 8 ELSE 0
    IN  [ok |-> TRUE,
         v |-> [k \in 1..got |-> Ordered(s, p + 8 * (k - 1), 8, endian)],
         pos |-> p + 8 * got]

\* (0..env_len).map(|_| raw.ioread_with::<f64>(endian)).collect()
read_envelope(s, p, n, endian) ==
    IF p + 8 * n <= Len(s)
    THEN [ok |-> TRUE,
          v |-> [k \in 1..n |-> Ordered(s, p + 8 * (k - 1), 8, endian)],
          pos |-> p + 8 * n]
    ELSE NoRead

\* Mutant: the merged header takes the embedded OGC header's byte order.
GpkgMergeInnerEndian(endian, srid, envelope, ogc_info) ==
    WkbInfo(ogc_info.endian, ogc_info.base_type, ogc_info.has_z, ogc_info.has_m,
            Some(srid), envelope)

\* WkbInfo { endian, base_type: ogc_info.base_type, has_z: ogc_info.has_z,
\*           has_m: ogc_info.has_m, srid: Some(srid), envelope }
GpkgMerge(endian, srid, envelope, ogc_info) ==
    WkbInfo(endian, ogc_info.base_type, ogc_info.has_z, ogc_info.has_m,
            Some(srid), envelope)

\* Mutant: only the first magic byte is compared.
IsGpkgMagicFirstByte(magic) == magic[1] = 71

\* &magic == b"GP"
IsGpkgMagic(magic) == magic = <<71, 80>>

read_gpkg_header(s, p) ==
    LET m1 == ioread_u8(s, p) IN
    IF ~m1.ok THEN HeaderErr("IoError", p) ELSE
    LET m2 == ioread_u8(s, m1.pos) IN
    IF ~m2.ok THEN HeaderErr("IoError", m1.pos) ELSE
    IF ~IsGpkgMagic(<<m1.v[1], m2.v[1]>>) THEN HeaderErr("GeometryFormat", m2.pos) ELSE
    LET version == ioread_u8(s, m2.pos) IN
    IF ~version.ok THEN HeaderErr("IoError", m2.pos) ELSE
    LET fl == ioread_u8(s, version.pos) IN
    IF ~fl.ok THEN HeaderErr("IoError", version.pos) ELSE
    LET flags == fl.v[1]
        n == env_len(flags)
    IN
    IF n < 0 THEN HeaderErr("GeometryFormat", fl.pos) ELSE
    LET endian == FlagsEndian(flags)
        sr == ioread_i32(s, fl.pos, endian)
    IN
    IF ~sr.ok THEN HeaderErr("IoError", fl.pos) ELSE
    LET envelope == read_envelope(s, sr.pos, n, endian) IN
    IF ~envelope.ok THEN HeaderErr("IoError", sr.pos) ELSE
    LET ogc == read_wkb_header(s, envelope.pos) IN
    IF ogc.res # "Ok" THEN HeaderErr(ogc.res, ogc.pos) ELSE
    [res |-> "Ok",
     info |-> GpkgMerge(endian, sr.v[1], envelope.v, ogc.info),
     pos |-> ogc.pos]

\* The decoder a function value names.
Decode(by, s, p) ==
    CASE by = "read_wkb_header" -> read_wkb_header(s, p)
      [] by = "read_ewkb_header" -> read_ewkb_header(s, p)
      [] by = "read_gpkg_header" -> read_gpkg_header(s, p)

(***************************************************************************)
(* The processor (external): every callback returns Ok or an error of its  *)
(* own choosing; dimensions() is fixed for the duration of a walk.         *)
(***************************************************************************)

ProcErrors == {"IoError", "Property"}
ProcResults == {"Ok"} \cup ProcErrors

NoErr == [err |-> "none", at |-> 0]

\* One callback as the processor sees it.  Arguments a callback does not
\* take are left at their defaults; coord is <<x, y>> for xy and
\* <<x, y, z, m>> (z, m optional values) for coordinate.
CallRec(fn, tagged, n, idx, coord) ==
    [fn |-> fn, tagged |-> tagged, n |-> n, idx |-> idx, coord |-> coord]

\* processor.dimensions().z || processor.dimensions().m
multi_dim(d) == d.z \/ d.m

(***************************************************************************)
(* Coordinate reader.  Returns [ok, pos, nread, call]: nread ordinates     *)
(* were read before the call or the I/O failure; call is the one callback  *)
(* to make when ok.                                                        *)
(***************************************************************************)

CoordErr(p, k) == [ok |-> FALSE, pos |-> p, nread |-> k, call |-> <<>>]

\* Mutant: the M ordinate is never read.
process_coord_no_m(s, p, info, multi, idx) ==
    LET x == ioread_f64(s, p, info.endian) IN
    IF ~x.ok THEN CoordErr(p, 0) ELSE
    LET y == ioread_f64(s, x.pos, info.endian) IN
    IF ~y.ok THEN CoordErr(x.pos, 1) ELSE
    LET zr == ioread_f64(s, y.pos, info.endian) IN
    IF info.has_z /\ ~zr.ok THEN CoordErr(y.pos, 2) ELSE
    LET z == IF info.has_z THEN Some(zr.v) ELSE None
        zpos == IF info.has_z THEN zr.pos ELSE y.pos
    IN  [ok |-> TRUE,
         pos |-> zpos,
         nread |-> (zpos - p) \div 8,
         call |-> IF multi
                  THEN CallRec("coordinate", FALSE, <<>>, idx, <<x.v, y.v, z, None>>)
                  ELSE CallRec("xy", FALSE, <<>>, idx, <<x.v, y.v>>)]

process_coord(s, p, info, multi, idx) ==
    LET x == ioread_f64(s, p, info.endian) IN
    IF ~x.ok THEN CoordErr(p, 0) ELSE
    LET y == ioread_f64(s, x.pos, info.endian) IN
    IF ~y.ok THEN CoordErr(x.pos, 1) ELSE
    LET zr == ioread_f64(s, y.pos, info.endian) IN
    IF info.has_z /\ ~zr.ok THEN CoordErr(y.pos, 2) ELSE
    LET z == IF info.has_z THEN Some(zr.v) ELSE None
        zpos == IF info.has_z THEN zr.pos ELSE y.pos
        mr == ioread_f64(s, zpos, info.endian)
    IN
    IF info.has_m /\ ~mr.ok THEN CoordErr(zpos, IF info.has_z THEN 3 ELSE 2) ELSE
    LET m == IF info.has_m THEN Some(mr.v) ELSE None
        mpos == IF info.has_m THEN mr.pos ELSE zpos
    IN  [ok |-> TRUE,
         pos |-> mpos,
         nread |-> (mpos - p) \div 8,
         call |-> IF multi
                  THEN CallRec("coordinate", FALSE, <<>>, idx, <<x.v, y.v, z, m>>)
                  ELSE CallRec("xy", FALSE, <<>>, idx, <<x.v, y.v>>)]

(***************************************************************************)
(* Walker state                                                            *)
(***************************************************************************)

\* An activation of process_wkb_geom_n, process_linestring or
\* process_polygon: its arguments, its loop variables and where it stands.
Frame(fn, info, tagged, idx) ==
    [fn |-> fn, info |-> info, tagged |-> tagged, idx |-> idx,
     pc |-> "enter", i |-> 0, n |-> <<0, 0, 0, 0>>, multi |-> FALSE]

Running == result = "running" /\ stack # <<>>
Top == stack[Len(stack)]
SetTop(f) == [stack EXCEPT ![Len(stack)] = f]
Push(f, callee) == Append(SetTop(f), callee)

InGeom(kind) ==
    /\ Running
    /\ Top.fn = "process_wkb_geom_n"
    /\ Top.info.base_type = kind

\* The stack after the innermost activation returns Ok: its caller resumes.
\* A caller standing at a delegating arm (`process_linestring(..)?; Ok(())`)
\* returns Ok in turn; a caller in a loop moves to its next iteration.
RECURSIVE Return(_)
Return(stk) ==
    LET rest == SubSeq(stk, 1, Len(stk) - 1) IN
    IF rest = <<>> THEN <<>>
    ELSE LET c == rest[Len(rest)] IN
         IF c.pc = "call" THEN Return(rest)
         ELSE [rest EXCEPT ![Len(rest)].i = c.i + 1]

\* History records.
ReadRec(at, w, endian) ==
    [at |-> at, w |-> w, endian |-> endian, nh |-> Len(hdrs), nc |-> Len(calls)]

HdrRec(by, role, h) ==
    [at |-> pos, by |-> by, role |-> role, res |-> h.res, info |-> h.info,
     end |-> h.pos, nc |-> Len(calls)]

\* A failed read: `?` returns the I/O error from every enclosing activation.
IoFail ==
    /\ result' = "IoError"
    /\ stack' = <<>>
    /\ UNCHANGED <<calls, procErr>>

\* A failed header decode inside the walk propagates likewise.
HeaderFail(h) ==
    /\ result' = h.res
    /\ stack' = <<>>
    /\ pos' = h.pos
    /\ UNCHANGED <<calls, reads, procErr>>

\* `processor.f(..)?`: make the callback; on Ok go on with okStack (the walk
\* is over, with Ok, when no activation is left), on Err return that error
\* from every enclosing activation.
CallIgnoringErr(c, r, okStack) ==
    /\ calls' = Append(calls, c)
    /\ stack' = okStack
    /\ result' = IF okStack = <<>> THEN "Ok" ELSE "running"
    /\ procErr' = IF r # "Ok" /\ procErr = NoErr
                  THEN [err |-> r, at |-> Len(calls) + 1] ELSE procErr

Call(c, r, okStack) ==
    /\ calls' = Append(calls, c)
    /\ IF r = "Ok"
       THEN /\ stack' = okStack
            /\ result' = IF okStack = <<>> THEN "Ok" ELSE "running"
            /\ procErr' = procErr
       ELSE /\ stack' = <<>>
            /\ result' = r
            /\ procErr' = [err |-> r, at |-> Len(calls) + 1]

(***************************************************************************)
(* Entry points                                                            *)
(***************************************************************************)

Idle == result = "running" /\ stack = <<>> /\ read_header = "none"

\* `let info = read_X_header(raw)?; process_wkb_geom_n(raw, &info, child, 0, processor)`
Enter(top, child) ==
    /\ Idle
    /\ LET h == Decode(top, stream, pos) IN
       /\ hdrs' = Append(hdrs, HdrRec(top, "top", h))
       /\ pos' = h.pos
       /\ read_header' = child
       /\ IF h.res = "Ok"
          THEN /\ stack' = <<Frame("process_wkb_geom_n", h.info, TRUE, 0)>>
               /\ result' = "running"
          ELSE /\ stack' = <<>>
               /\ result' = h.res
    /\ UNCHANGED <<stream, dims, calls, reads, procErr>>

process_ewkb_geom ==
    /\ Idle
    /\ Enter("read_ewkb_header", "read_ewkb_header")

process_gpkg_geom ==
    /\ Idle
    /\ Enter("read_gpkg_header", "read_wkb_header")

(***************************************************************************)
(* process_wkb_geom_n: one action per step of each match arm               *)
(***************************************************************************)

\* Point arm: processor.point_begin(idx)?
PointBegin ==
    /\ InGeom("Point") /\ Top.pc = "enter"
    /\ \E r \in ProcResults :
         Call(CallRec("point_begin", FALSE, <<>>, Top.idx, <<>>), r,
              SetTop([Top EXCEPT !.pc = "coord"]))
    /\ UNCHANGED <<stream, pos, dims, read_header, reads, hdrs>>

\* The ordinates process_coord read, as history records.
CoordReads(c, endian) ==
    [k \in 1..c.nread |-> ReadRec(pos + 8 * (k - 1), 8, endian)]

\* process_coord(raw, info, multi, idx, processor)? from an activation whose
\* stack is okStack once the coordinate is delivered.
Coord(info, multi, idx, okStack) ==
    LET c == process_coord(stream, pos, info, multi, idx) IN
    /\ reads' = reads \o CoordReads(c, info.endian)
    /\ pos' = c.pos
    /\ IF c.ok
       THEN \E r \in ProcResults : Call(c.call, r, okStack)
       ELSE IoFail

\* Point arm: process_coord(raw, &info, multi_dim(processor), 0, processor)?
PointCoord ==
    /\ InGeom("Point") /\ Top.pc = "coord"
    /\ Coord(Top.info, multi_dim(dims), 0, SetTop([Top EXCEPT !.pc = "end"]))
    /\ UNCHANGED <<stream, dims, read_header, hdrs>>

\* Point arm: processor.point_end(idx)?; Ok(())
PointEnd ==
    /\ InGeom("Point") /\ Top.pc = "end"
    /\ \E r \in ProcResults :
         Call(CallRec("point_end", FALSE, <<>>, Top.idx, <<>>), r, Return(stack))
    /\ UNCHANGED <<stream, pos, dims, read_header, reads, hdrs>>

\* The begin callbacks followed by `let multi = multi_dim(processor);`.
CachesMultiDim == {"multipoint_begin", "linestring_begin"}

\* `let n = raw.ioread_with::<u32>(info.endian)? as usize;
\*  processor.X_begin(n, idx)?; [let multi = multi_dim(processor);]`
CountedBegin(begin, tagged) ==
    /\ Top.pc = "enter"
    /\ LET n == ioread_u32(stream, pos, Top.info.endian) IN
       IF n.ok
       THEN /\ pos' = n.pos
            /\ reads' = Append(reads, ReadRec(pos, 4, Top.info.endian))
            /\ \E r \in ProcResults :
                 Call(CallRec(begin, tagged, n.v, Top.idx, <<>>), r,
                      SetTop([Top EXCEPT !.pc = "loop", !.n = n.v, !.i = 0,
                                         !.multi = IF begin \in CachesMultiDim
                                                   THEN multi_dim(dims)
                                                   ELSE Top.multi]))
       ELSE /\ IoFail
            /\ UNCHANGED <<pos, reads>>
    /\ UNCHANGED <<stream, dims, read_header, hdrs>>

\* `processor.X_end(idx)` once the loop `for i in 0..n` is exhausted.
CountedEnd(end, tagged) ==
    /\ Top.pc = "loop" /\ ~InRange(Top.i, Top.n)
    /\ \E r \in ProcResults :
         Call(CallRec(end, tagged, <<>>, Top.idx, <<>>), r, Return(stack))
    /\ UNCHANGED <<stream, pos, dims, read_header, reads, hdrs>>

\* Mutant: child headers are decoded with the EWKB rules in every walk.
ChildHdrEwkb == Decode("read_ewkb_header", stream, pos)

\* The header the loop body of a Multi* or GeometryCollection arm decodes:
\* `let info = read_header(raw)?;`
ChildHdr == Decode(read_header, stream, pos)

\* A loop body `for i in 0..n { let info = read_header(raw)?; .. }` up to its
\* callee, which gets the child's header.
LoopBody(role) ==
    /\ Top.pc = "loop" /\ InRange(Top.i, Top.n)
    /\ hdrs' = Append(hdrs, HdrRec(read_header, role, ChildHdr))
    /\ UNCHANGED <<stream, dims, read_header>>

MultiPointBegin == InGeom("MultiPoint") /\ CountedBegin("multipoint_begin", FALSE)

\* process_coord(raw, &info, multi, i, processor)? with the child's info,
\* read at the offset the child's header ends.
MultiPointCoord(h) ==
    LET c == process_coord(stream, h.pos, h.info, Top.multi, Top.i) IN
    /\ reads' = reads \o
         [k \in 1..c.nread |->
            [at |-> h.pos + 8 * (k - 1), w |-> 8, endian |-> h.info.endian,
             nh |-> Len(hdrs) + 1, nc |-> Len(calls)]]
    /\ pos' = c.pos
    /\ IF c.ok
       THEN \E r \in ProcResults :
              Call(c.call, r, SetTop([Top EXCEPT !.i = Top.i + 1]))
       ELSE IoFail

\* Mutant: a MultiPoint child must declare the kind Point.
MultiPointItemKindChecked ==
    /\ InGeom("MultiPoint")
    /\ LoopBody("multipoint")
    /\ IF ChildHdr.res = "Ok" /\ ChildHdr.info.base_type = "Point"
       THEN MultiPointCoord(ChildHdr)
       ELSE HeaderFail([ChildHdr EXCEPT !.res = IF @ = "Ok" THEN "GeometryFormat" ELSE @])

MultiPointItem ==
    /\ InGeom("MultiPoint")
    /\ LoopBody("multipoint")
    /\ IF ChildHdr.res = "Ok" THEN MultiPointCoord(ChildHdr) ELSE HeaderFail(ChildHdr)

MultiPointEnd == InGeom("MultiPoint") /\ CountedEnd("multipoint_end", FALSE)

\* Mutant: the callee gets the index of the enclosing geometry.
CallChildParentIdx(fn, info, tagged) ==
    /\ stack' = Push(Top, Frame(fn, info, tagged, Top.idx))
    /\ UNCHANGED <<calls, reads, result, procErr>>

\* The callee of a loop body starts with the child's header: nothing is read
\* and no callback is made until it runs.
CallChild(fn, info, tagged) ==
    /\ stack' = Push(Top, Frame(fn, info, tagged, Top.i))
    /\ UNCHANGED <<calls, reads, result, procErr>>

\* LineString arm: process_linestring(raw, &info, true, idx, processor)?
LineStringCall ==
    /\ InGeom("LineString") /\ Top.pc = "enter"
    /\ stack' = Push([Top EXCEPT !.pc = "call"],
                     Frame("process_linestring", Top.info, TRUE, Top.idx))
    /\ UNCHANGED <<stream, pos, dims, read_header, calls, reads, hdrs, result, procErr>>

\* Polygon arm: process_polygon(raw, &info, true, idx, processor)?
PolygonCall ==
    /\ InGeom("Polygon") /\ Top.pc = "enter"
    /\ stack' = Push([Top EXCEPT !.pc = "call"],
                     Frame("process_polygon", Top.info, TRUE, Top.idx))
    /\ UNCHANGED <<stream, pos, dims, read_header, calls, reads, hdrs, result, procErr>>

MultiLineStringBegin ==
    InGeom("MultiLineString") /\ CountedBegin("multilinestring_begin", FALSE)

\* Mutant: the child LineString is read under the MultiLineString's header.
MultiLineStringChildParentInfo(h) ==
    /\ CallChild("process_linestring", Top.info, FALSE)
    /\ pos' = h.pos

\* process_linestring(raw, &info, false, i, processor)?
MultiLineStringChild(h) ==
    /\ CallChild("process_linestring", h.info, FALSE)
    /\ pos' = h.pos

MultiLineStringItem ==
    /\ InGeom("MultiLineString")
    /\ LoopBody("multilinestring")
    /\ IF ChildHdr.res = "Ok" THEN MultiLineStringChild(ChildHdr) ELSE HeaderFail(ChildHdr)

MultiLineStringEnd ==
    InGeom("MultiLineString") /\ CountedEnd("multilinestring_end", FALSE)

MultiPolygonBegin ==
    InGeom("MultiPolygon") /\ CountedBegin("multipolygon_begin", FALSE)

\* process_polygon(raw, &info, false, i, processor)?
MultiPolygonChild(h) ==
    /\ CallChild("process_polygon", h.info, FALSE)
    /\ pos' = h.pos

MultiPolygonItem ==
    /\ InGeom("MultiPolygon")
    /\ LoopBody("multipolygon")
    /\ IF ChildHdr.res = "Ok" THEN MultiPolygonChild(ChildHdr) ELSE HeaderFail(ChildHdr)

MultiPolygonEnd ==
    InGeom("MultiPolygon") /\ CountedEnd("multipolygon_end", FALSE)

GeometryCollectionBegin ==
    InGeom("GeometryCollection") /\ CountedBegin("geometrycollection_begin", FALSE)

\* process_wkb_geom_n(raw, &info, read_header, i, processor)?
GeometryCollectionChild(h) ==
    /\ stack' = Push(Top, Frame("process_wkb_geom_n", h.info, TRUE, Top.i))
    /\ pos' = h.pos
    /\ UNCHANGED <<calls, reads, result, procErr>>

GeometryCollectionItem ==
    /\ InGeom("GeometryCollection")
    /\ LoopBody("dispatch")
    /\ IF ChildHdr.res = "Ok" THEN GeometryCollectionChild(ChildHdr) ELSE HeaderFail(ChildHdr)

GeometryCollectionEnd ==
    InGeom("GeometryCollection") /\ CountedEnd("geometrycollection_end", FALSE)

Dispatched ==
    {"Point", "MultiPoint", "LineString", "MultiLineString", "Polygon",
     "MultiPolygon", "GeometryCollection"}

\* Mutant: a kind without an arm is skipped and the walk goes on.
UnsupportedSkipped ==
    /\ Running
    /\ Top.fn = "process_wkb_geom_n"
    /\ Top.info.base_type \notin Dispatched
    /\ result' = IF Return(stack) = <<>> THEN "Ok" ELSE "running"
    /\ stack' = Return(stack)
    /\ UNCHANGED <<stream, pos, dims, read_header, calls, reads, hdrs, procErr>>

\* `_ => return Err(GeozeroError::GeometryFormat)`
Unsupported ==
    /\ Running
    /\ Top.fn = "process_wkb_geom_n"
    /\ Top.info.base_type \notin Dispatched
    /\ result' = "GeometryFormat"
    /\ stack' = <<>>
    /\ UNCHANGED <<stream, pos, dims, read_header, calls, reads, hdrs, procErr>>

(***************************************************************************)
(* process_linestring and process_polygon                                  *)
(***************************************************************************)

InFn(fn) == Running /\ Top.fn = fn

LineStringBegin ==
    InFn("process_linestring") /\ CountedBegin("linestring_begin", Top.tagged)

\* for i in 0..length { process_coord(raw, info, multi, i, processor)?; }
LineStringCoord ==
    /\ InFn("process_linestring")
    /\ Top.pc = "loop" /\ InRange(Top.i, Top.n)
    /\ Coord(Top.info, Top.multi, Top.i, SetTop([Top EXCEPT !.i = Top.i + 1]))
    /\ UNCHANGED <<stream, dims, read_header, hdrs>>

LineStringEnd ==
    InFn("process_linestring") /\ CountedEnd("linestring_end", Top.tagged)

PolygonBegin ==
    InFn("process_polygon") /\ CountedBegin("polygon_begin", Top.tagged)

\* Mutant: a ring is announced with the tag of its Polygon.
PolygonRingInheritsTag ==
    /\ InFn("process_polygon")
    /\ Top.pc = "loop" /\ InRange(Top.i, Top.n)
    /\ stack' = Push(Top, Frame("process_linestring", Top.info, Top.tagged, Top.i))
    /\ UNCHANGED <<stream, pos, dims, read_header, calls, reads, hdrs, result, procErr>>

\* for i in 0..ring_count { process_linestring(raw, info, false, i, processor)?; }
PolygonRing ==
    /\ InFn("process_polygon")
    /\ Top.pc = "loop" /\ InRange(Top.i, Top.n)
    /\ stack' = Push(Top, Frame("process_linestring", Top.info, FALSE, Top.i))
    /\ UNCHANGED <<stream, pos, dims, read_header, calls, reads, hdrs, result, procErr>>

PolygonEnd ==
    InFn("process_polygon") /\ CountedEnd("polygon_end", Top.tagged)

(***************************************************************************)
(* Inputs of the walk: byte streams, whole and cut short at every offset   *)
(***************************************************************************)

\* Points per LineString or ring, and rings per Polygon, of the inputs.
NPts == 2
NRings == 1

RECURSIVE Flat(_)
Flat(ss) == IF ss = <<>> THEN <<>> ELSE Head(ss) \o Flat(Tail(ss))

\* Wire bytes of a most-significant-first tuple under a byte order.
Enc(e, t) == IF e = "BE" THEN t ELSE Reverse(t)

\* The f64 bit pattern 0x40kk_0000_0000_0000 (k = 36 is 10.0).
Dbl(k) == <<64, k, 0, 0, 0, 0, 0, 0>>

\* u32 type codes: OGC (dimension * 1000 + kind) and EWKB (flag byte, kind).
OgcCode(dim, kind) == <<0, 0, (dim * 1000 + kind) \div 256, (dim * 1000 + kind) % 256>>
EwkbCode(flagbyte, kind) == <<flagbyte, 0, 0, kind>>

Hdr(e, code) == <<IF e = "BE" THEN 0 ELSE 1>> \o Enc(e, code)
Cnt(e, k) == Enc(e, <<0, 0, 0, k>>)
Srid4326(e) == Enc(e, <<0, 0, 16, 230>>)

\* n points of d ordinates each; the ordinates are pairwise different.
Points(e, n, d) ==
    Flat([i \in 1..n |-> Flat([j \in 1..d |-> Enc(e, Dbl(10 * i + j))])])

Line(e, d) == Cnt(e, NPts) \o Points(e, NPts, d)
Poly(e, d) == Cnt(e, NRings) \o Flat([i \in 1..NRings |-> Line(e, d)])

\* The envelope of a well-formed GPKG header: as many doubles as the flags
\* announce (none under a selector the format does not define), in the byte
\* order the flags announce.
Envelope(flags) ==
    LET e == IF flags % 2 = 0 THEN "BE" ELSE "LE"
        sel == (flags \div 2) % 8
        n == IF sel = 1 THEN 4 ELSE IF sel \in {2, 3} THEN 6 ELSE IF sel = 4 THEN 8 ELSE 0
    IN  Points(e, 1, n)

\* GPKG prefix: magic, version, flags, srid and envelope under the flag order.
Gpkg(flags) ==
    <<71, 80, 0, flags>> \o Srid4326(IF flags % 2 = 0 THEN "BE" ELSE "LE")
        \o Envelope(flags)

EwkbStreams ==
    { \* SELECT 'POINT(10 -20 100 1)'::geometry
      Hdr("LE", EwkbCode(192, 1))
        \o Enc("LE", Dbl(36)) \o Enc("LE", <<192, 52, 0, 0, 0, 0, 0, 0>>)
        \o Enc("LE", Dbl(89)) \o Enc("LE", <<63, 240, 0, 0, 0, 0, 0, 0>>),
      \* MultiPoint Z with SRID; children LE Z and BE M
      Hdr("LE", EwkbCode(160, 4)) \o Srid4326("LE") \o Cnt("LE", 2)
        \o Hdr("LE", EwkbCode(128, 1)) \o Points("LE", 1, 3)
        \o Hdr("BE", EwkbCode(64, 1)) \o Points("BE", 1, 3),
      \* LineString Z with SRID, big-endian
      Hdr("BE", EwkbCode(160, 2)) \o Srid4326("BE") \o Line("BE", 3),
      \* MultiLineString; children BE 2D and LE ZM with its own SRID
      Hdr("LE", EwkbCode(32, 5)) \o Srid4326("LE") \o Cnt("LE", 2)
        \o Hdr("BE", EwkbCode(0, 2)) \o Line("BE", 2)
        \o Hdr("LE", EwkbCode(224, 2)) \o Srid4326("LE") \o Line("LE", 4),
      \* Polygon M
      Hdr("LE", EwkbCode(64, 3)) \o Poly("LE", 3),
      \* MultiPolygon, big-endian, with a little-endian Z child
      Hdr("BE", EwkbCode(0, 6)) \o Cnt("BE", 1)
        \o Hdr("LE", EwkbCode(128, 3)) \o Poly("LE", 3),
      \* GeometryCollection(Point BE, LineString LE Z, GeometryCollection(Polygon BE))
      Hdr("LE", EwkbCode(0, 7)) \o Cnt("LE", 3)
        \o Hdr("BE", EwkbCode(0, 1)) \o Points("BE", 1, 2)
        \o Hdr("LE", EwkbCode(128, 2)) \o Line("LE", 3)
        \o Hdr("BE", EwkbCode(0, 7)) \o Cnt("BE", 1)
        \o Hdr("BE", EwkbCode(0, 3)) \o Poly("BE", 2),
      \* GeometryCollection(Point, TIN)
      Hdr("LE", EwkbCode(0, 7)) \o Cnt("LE", 2)
        \o Hdr("LE", EwkbCode(0, 1)) \o Points("LE", 1, 2)
        \o Hdr("LE", EwkbCode(0, 16)) \o Cnt("LE", 0),
      \* Triangle Z, PolyhedralSurface, and an unassigned code
      Hdr("LE", EwkbCode(128, 17)) \o Poly("LE", 3),
      Hdr("BE", EwkbCode(0, 15)) \o Cnt("BE", 0),
      Hdr("LE", EwkbCode(0, 9)) \o Cnt("LE", 0) }

\* Well-formed streams whose embedded body declares the byte order of the
\* GPKG flags.
GpkgWellFormed ==
    { \* pt2d: little-endian, 4-double envelope
      Gpkg(3) \o Hdr("LE", OgcCode(0, 1)) \o Points("LE", 1, 2),
      \* LineString Z, little-endian, 6-double envelope
      Gpkg(5) \o Hdr("LE", OgcCode(1, 2)) \o Line("LE", 3),
      \* mln3dzm: MultiLineString ZM with a LineString ZM child
      Gpkg(3) \o Hdr("LE", OgcCode(3, 5)) \o Cnt("LE", 1)
        \o Hdr("LE", OgcCode(3, 2)) \o Line("LE", 4),
      \* gc2d: GeometryCollection(Point Z big-endian, Polygon little-endian)
      Gpkg(1) \o Hdr("LE", OgcCode(0, 7)) \o Cnt("LE", 2)
        \o Hdr("BE", OgcCode(1, 1)) \o Points("BE", 1, 3)
        \o Hdr("LE", OgcCode(0, 3)) \o Poly("LE", 2),
      \* MultiPolygon M, big-endian, with a little-endian 2D child
      Gpkg(0) \o Hdr("BE", OgcCode(2, 6)) \o Cnt("BE", 1)
        \o Hdr("LE", OgcCode(0, 3)) \o Poly("LE", 2),
      \* MultiPoint; children Point M little-endian and Point big-endian
      Gpkg(0) \o Hdr("BE", OgcCode(0, 4)) \o Cnt("BE", 2)
        \o Hdr("LE", OgcCode(2, 1)) \o Points("LE", 1, 3)
        \o Hdr("BE", OgcCode(0, 1)) \o Points("BE", 1, 2),
      \* GeometryCollection(GeometryCollection Z(LineString Z big-endian))
      Gpkg(1) \o Hdr("LE", OgcCode(0, 7)) \o Cnt("LE", 1)
        \o Hdr("LE", OgcCode(1, 7)) \o Cnt("LE", 1)
        \o Hdr("BE", OgcCode(1, 2)) \o Line("BE", 3) }

\* Well-formed streams whose embedded body declares the other byte order.
GpkgMixedOrder ==
    { \* LineString, little-endian body under big-endian GPKG flags
      Gpkg(0) \o Hdr("LE", OgcCode(0, 2)) \o Line("LE", 2),
      \* Point Z, big-endian body under little-endian GPKG flags
      Gpkg(1) \o Hdr("BE", OgcCode(1, 1)) \o Points("BE", 1, 3),
      \* MultiPoint, big-endian body under little-endian GPKG flags
      Gpkg(1) \o Hdr("BE", OgcCode(0, 4)) \o Cnt("BE", 1)
        \o Hdr("BE", OgcCode(0, 1)) \o Points("BE", 1, 2) }

\* Streams the format or the walker does not accept.
GpkgRejected ==
    { \* GeometryCollection(Point, <unassigned code 8>)
      Gpkg(1) \o Hdr("LE", OgcCode(0, 7)) \o Cnt("LE", 2)
        \o Hdr("LE", OgcCode(0, 1)) \o Points("LE", 1, 2)
        \o Hdr("LE", OgcCode(0, 8)) \o Cnt("LE", 0),
      \* Triangle Z, TIN M
      Gpkg(1) \o Hdr("LE", OgcCode(1, 17)) \o Poly("LE", 3),
      Gpkg(0) \o Hdr("BE", OgcCode(2, 16)) \o Cnt("BE", 0),
      \* envelope selector 5
      Gpkg(11) \o Hdr("LE", OgcCode(0, 1)) \o Points("LE", 1, 2),
      \* magic "GQ", "HP" and "PG" before an otherwise well-formed Point
      <<71, 81, 0, 1>> \o Srid4326("LE") \o Hdr("LE", OgcCode(0, 1)) \o Points("LE", 1, 2),
      <<72, 80, 0, 1>> \o Srid4326("LE") \o Hdr("LE", OgcCode(0, 1)) \o Points("LE", 1, 2),
      <<80, 71, 0, 1>> \o Srid4326("LE") \o Hdr("LE", OgcCode(0, 1)) \o Points("LE", 1, 2) }

GpkgStreams == GpkgWellFormed \cup GpkgMixedOrder \cup GpkgRejected

\* EWKB streams that declare far more elements than they hold.
Overdeclared ==
    { \* Polygon of 2^32 - 1 rings: two rings without points follow
      Hdr("LE", EwkbCode(0, 3)) \o <<255, 255, 255, 255>>
        \o Cnt("LE", 0) \o Cnt("LE", 0),
      \* GeometryCollection of 2^32 - 1 children: a Point, an empty LineString
      \* and an empty GeometryCollection follow
      Hdr("BE", EwkbCode(0, 7)) \o <<255, 255, 255, 255>>
        \o Hdr("BE", EwkbCode(0, 1)) \o Points("BE", 1, 2)
        \o Hdr("LE", EwkbCode(0, 2)) \o Cnt("LE", 0)
        \o Hdr("LE", EwkbCode(0, 7)) \o Cnt("LE", 0),
      \* LineString Z of 2^31 points: one point follows
      Hdr("BE", EwkbCode(128, 2)) \o <<128, 0, 0, 0>> \o Points("BE", 1, 3) }

\* Multi* streams whose children declare kinds other than Point, LineString
\* and Polygon respectively, each followed by the body the parent implies.
MiskindedChildren ==
    { \* EWKB MultiPoint; children declared LineString Z, TIN and code 0
      Hdr("LE", EwkbCode(0, 4)) \o Cnt("LE", 3)
        \o Hdr("LE", EwkbCode(128, 2)) \o Points("LE", 1, 3)
        \o Hdr("BE", EwkbCode(0, 16)) \o Points("BE", 1, 2)
        \o Hdr("LE", EwkbCode(0, 0)) \o Points("LE", 1, 2),
      \* EWKB MultiLineString; children declared Point and code 99
      Hdr("BE", EwkbCode(0, 5)) \o Cnt("BE", 2)
        \o Hdr("BE", EwkbCode(0, 1)) \o Line("BE", 2)
        \o Hdr("LE", EwkbCode(64, 99)) \o Line("LE", 3),
      \* GPKG MultiPolygon; children declared TIN Z and GeometryCollection
      Gpkg(1) \o Hdr("LE", OgcCode(0, 6)) \o Cnt("LE", 2)
        \o Hdr("LE", OgcCode(1, 16)) \o Poly("LE", 3)
        \o Hdr("BE", OgcCode(0, 7)) \o Poly("BE", 2) }

FullStreams == EwkbStreams \cup GpkgStreams \cup Overdeclared \cup MiskindedChildren

\* Every prefix of s, s included.
Prefixes(s) == { SubSeq(s, 1, k) : k \in 0..Len(s) }

Streams == UNION { Prefixes(s) : s \in FullStreams }

Dimensions == { [z |-> FALSE, m |-> FALSE], [z |-> TRUE, m |-> FALSE],
                [z |-> FALSE, m |-> TRUE] }

(***************************************************************************)
(* The walk                                                                *)
(***************************************************************************)

Init ==
    /\ stream \in Streams
    /\ dims \in Dimensions
    /\ pos = 0
    /\ read_header = "none"
    /\ stack = <<>>
    /\ calls = <<>>
    /\ reads = <<>>
    /\ hdrs = <<>>
    /\ result = "running"
    /\ procErr = NoErr

Next ==
    \/ process_ewkb_geom
    \/ process_gpkg_geom
    \/ PointBegin
    \/ PointCoord
    \/ PointEnd
    \/ MultiPointBegin
    \/ MultiPointItem
    \/ MultiPointEnd
    \/ LineStringCall
    \/ MultiLineStringBegin
    \/ MultiLineStringItem
    \/ MultiLineStringEnd
    \/ PolygonCall
    \/ MultiPolygonBegin
    \/ MultiPolygonItem
    \/ MultiPolygonEnd
    \/ GeometryCollectionBegin
    \/ GeometryCollectionItem
    \/ GeometryCollectionEnd
    \/ Unsupported
    \/ LineStringBegin
    \/ LineStringCoord
    \/ LineStringEnd
    \/ PolygonBegin
    \/ PolygonRing
    \/ PolygonEnd

Spec == Init /\ [][Next]_vars

(***************************************************************************)
(* The header decoders called on their own, as the tests call them         *)
(***************************************************************************)

\* Bytes after the 5-byte header in the inputs that carry an EWKB SRID.
MaxTail == 4

ByteOrderBytes == {0, 1, 2, 255}
OuterCodeBytes == {0, 1, 17, 32, 64, 160, 185, 209, 224, 233}
InnerCodeBytes == {0, 3, 7, 11}
SridBytes == {0, 16, 128, 230, 255}

\* Sequences over S of length 0..n.
RECURSIVE SeqsUpTo(_, _)
SeqsUpTo(S, n) ==
    IF n = 0 THEN {<<>>}
    ELSE LET shorter == SeqsUpTo(S, n - 1) IN
         shorter \cup { Append(q, x) : q \in { r \in shorter : Len(r) = n - 1 }, x \in S }

\* A byte-order byte and a type code: 1001 = 0x03E9, 2001 = 0x07D1 and
\* 3001 = 0x0BB9 occur in both byte orders, as do the EWKB flag bits.
CodeStreams ==
    { <<b, c1, c2, c3, c4>> :
        b \in ByteOrderBytes, c1 \in OuterCodeBytes, c2 \in InnerCodeBytes,
        c3 \in InnerCodeBytes, c4 \in OuterCodeBytes }

SridStreams ==
    { Hdr(e, c) \o tail :
        e \in {"BE", "LE"},
        c \in {EwkbCode(32, 1), EwkbCode(224, 3), EwkbCode(192, 1), EwkbCode(0, 2)},
        tail \in SeqsUpTo(SridBytes, MaxTail) }

GpkgFlags == 0..63 \cup {66, 137, 255}

GpkgHeaderStreams ==
    { magic \o <<0, flags>> \o srid \o Envelope(flags) \o Hdr(e, c) :
        magic \in {<<71, 80>>, <<71, 81>>, <<80, 71>>},
        flags \in GpkgFlags,
        srid \in {<<230, 16, 0, 0>>, <<255, 255, 255, 254>>},
        e \in {"BE", "LE"},
        c \in {OgcCode(0, 1), OgcCode(3, 5), OgcCode(1, 17), OgcCode(2, 7), OgcCode(0, 99)} }

CutHeaderStreams ==
    UNION { Prefixes(Gpkg(flags) \o Hdr(e, OgcCode(1, 3))) :
              flags \in {0, 1, 3, 4, 7, 9, 24, 43}, e \in {"BE", "LE"} }
    \cup UNION { Prefixes(s) : s \in { q \in SridStreams : Len(q) = 9 /\ q[6] = 230 /\ q[9] = 16 } }

HeaderStreams == CodeStreams \cup SridStreams \cup GpkgHeaderStreams \cup CutHeaderStreams

HdrInit ==
    /\ stream \in HeaderStreams
    /\ dims = [z |-> FALSE, m |-> FALSE]
    /\ pos = 0
    /\ read_header = "none"
    /\ stack = <<>>
    /\ calls = <<>>
    /\ reads = <<>>
    /\ hdrs = <<>>
    /\ result = "running"
    /\ procErr = NoErr

\* `let info = read_X_header(&mut bytes.as_slice())`
CallHeader(by) ==
    /\ Idle /\ hdrs = <<>>
    /\ LET h == Decode(by, stream, pos) IN
       /\ hdrs' = <<HdrRec(by, "top", h)>>
       /\ pos' = h.pos
       /\ result' = h.res
    /\ UNCHANGED <<stream, dims, read_header, stack, calls, reads, procErr>>

CallReadWkbHeader == CallHeader("read_wkb_header") /\ TRUE
CallReadEwkbHeader == CallHeader("read_ewkb_header") /\ TRUE
CallReadGpkgHeader == CallHeader("read_gpkg_header") /\ TRUE

HdrNext ==
    \/ CallReadWkbHeader
    \/ CallReadEwkbHeader
    \/ CallReadGpkgHeader

HdrSpec == HdrInit /\ [][HdrNext]_vars

(***************************************************************************)
(* Reference values, computed from the wire bytes without the decoders     *)
(***************************************************************************)

\* Byte order announced by a leading byte-order byte.
ExpOrder(b) == IF b = 0 THEN "BE" ELSE "LE"

\* The 32-bit word in the 4 bytes after offset a, most significant byte first.
ExpWord(s, a, e) ==
    IF e = "BE" THEN <<s[a + 1], s[a + 2], s[a + 3], s[a + 4]>>
    ELSE <<s[a + 4], s[a + 3], s[a + 2], s[a + 1]>>

\* The 64-bit pattern in the 8 bytes after offset a, most significant first.
ExpF64(s, a, e) ==
    IF e = "BE" THEN [i \in 1..8 |-> s[a + i]] ELSE [i \in 1..8 |-> s[a + 9 - i]]

ExpLow24(w) == w[2] * 65536 + w[3] * 256 + w[4]

\* w mod 1000 and w div 1000, from 2^24 = 16777 * 1000 + 216.
ExpMod1000(w) == (w[1] * 216 + ExpLow24(w)) % 1000
ExpDiv1000(w) == w[1] * 16777 + (w[1] * 216 + ExpLow24(w)) \div 1000

\* w as a signed 32-bit value.
ExpI32(w) ==
    IF w[1] < 128 THEN w[1] * 16777216 + ExpLow24(w)
    ELSE ((w[1] - 128) * 16777216 + ExpLow24(w) - 2147483647) - 1

\* GeometryKind of a base code.
ExpKind(c) ==
    IF c \in 1..7
    THEN <<"Point", "LineString", "Polygon", "MultiPoint", "MultiLineString",
           "MultiPolygon", "GeometryCollection">>[c]
    ELSE IF c \in 15..17
    THEN <<"PolyhedralSurface", "TIN", "Triangle">>[c - 14]
    ELSE "Unknown"

\* (has_z, has_m) of an OGC dimension indicator 0..3.
ExpDims(q) == <<q \in {1, 3}, q \in {2, 3}>>

HeadersBy(by) == { k \in 1..Len(hdrs) : hdrs[k].by = by }

(***************************************************************************)
(* Claims about the header decoders                                        *)
(***************************************************************************)

\* C6: read_wkb_header, for every byte-order byte and every 32-bit type
\* code, succeeds consuming exactly 5 bytes and returns byte order big-endian
\* iff the first byte is 0, kind = classification of (code mod 1000),
\* (has_z, has_m) = (F,F), (T,F), (F,T), (T,T) for code div 1000 = 0, 1, 2, 3,
\* srid = None and an empty envelope.
C6_WkbHeader ==
    \A k \in HeadersBy("read_wkb_header") :
      LET h == hdrs[k] IN
      Len(stream) >= h.at + 5 =>
        LET e == ExpOrder(stream[h.at + 1])
            w == ExpWord(stream, h.at + 1, e)
        IN  /\ h.res = "Ok"
            /\ h.end = h.at + 5
            /\ h.info.endian = e
            /\ (h.info.endian = "BE") <=> (stream[h.at + 1] = 0)
            /\ h.info.base_type = ExpKind(ExpMod1000(w))
            /\ ExpDiv1000(w) \in 0..3 =>
                 <<h.info.has_z, h.info.has_m>> = ExpDims(ExpDiv1000(w))
            /\ h.info.srid = None
            /\ h.info.envelope = <<>>

\* C6 witness: a little-endian header announced by the byte 255 with code
\* 3001 was decoded as a Point with Z and M.
C6_Witness ==
    /\ hdrs # <<>>
    /\ hdrs[1].by = "read_wkb_header"
    /\ stream = <<255, 185, 11, 0, 0>>
    /\ hdrs[1].res = "Ok"
    /\ hdrs[1].info.base_type = "Point"
    /\ hdrs[1].info.has_z /\ hdrs[1].info.has_m

\* C7: read_ewkb_header returns kind = classification of (code AND 0xFF),
\* has_z iff bit 0x80000000, has_m iff bit 0x40000000, and srid = Some(v) iff
\* bit 0x20000000, v being the signed 32-bit value of the 4 bytes after the
\* type code under the same byte order; with the bit clear srid = None and
\* those 4 bytes are not consumed.
C7_EwkbHeader ==
    \A k \in HeadersBy("read_ewkb_header") :
      LET h == hdrs[k] IN
      Len(stream) >= h.at + 5 =>
        LET e == ExpOrder(stream[h.at + 1])
            w == ExpWord(stream, h.at + 1, e)
            sridBit == (w[1] % 64) >= 32
        IN  /\ h.res = "Ok" =>
                /\ h.info.endian = e
                /\ h.info.base_type = ExpKind(w[4])
                /\ h.info.has_z <=> (w[1] >= 128)
                /\ h.info.has_m <=> ((w[1] % 128) >= 64)
                /\ (h.info.srid # None) <=> sridBit
                /\ h.info.envelope = <<>>
            /\ ~sridBit =>
                /\ h.res = "Ok"
                /\ h.info.srid = None
                /\ h.end = h.at + 5
            /\ (sridBit /\ Len(stream) >= h.at + 9) =>
                /\ h.res = "Ok"
                /\ h.info.srid = Some(ExpI32(ExpWord(stream, h.at + 5, e)))
                /\ h.end = h.at + 9
            /\ (sridBit /\ Len(stream) < h.at + 9) => h.res = "IoError"

\* C7 witness: a big-endian Polygon header with all three flag bits was
\* decoded with a negative SRID.
C7_Witness ==
    /\ hdrs # <<>>
    /\ hdrs[1].by = "read_ewkb_header"
    /\ stream = <<0, 224, 0, 0, 3, 255, 255, 255, 230>>
    /\ hdrs[1].res = "Ok"
    /\ hdrs[1].info.srid = Some(-26)
    /\ hdrs[1].info.has_z /\ hdrs[1].info.has_m
    /\ hdrs[1].info.base_type = "Polygon"

\* Envelope length (in doubles) of a GPKG envelope selector 0..4.
ExpEnvLen(sel) == <<0, 4, 6, 6, 8>>[sel + 1]

\* C8: on success read_gpkg_header returns kind, has_z and has_m of the
\* embedded OGC header, byte_order = flags bit 0 (0 = big, 1 = little),
\* srid = Some(the GPKG SRID field) and the GPKG envelope; the embedded
\* body's byte-order byte governs only the reading of the embedded type code.
C8_GpkgHeader ==
    \A k \in HeadersBy("read_gpkg_header") :
      LET h == hdrs[k] IN
      h.res = "Ok" =>
        LET flags == stream[h.at + 4]
            e == IF flags % 2 = 0 THEN "BE" ELSE "LE"
            body == h.end - 5
            inner == ExpOrder(stream[body + 1])
            w == ExpWord(stream, body + 1, inner)
        IN  /\ h.info.endian = e
            /\ h.info.srid = Some(ExpI32(ExpWord(stream, h.at + 4, e)))
            /\ body = h.at + 8 + 8 * Len(h.info.envelope)
            /\ \A j \in 1..Len(h.info.envelope) :
                 h.info.envelope[j] = ExpF64(stream, h.at + 8 * j, e)
            /\ h.info.base_type = ExpKind(ExpMod1000(w))
            /\ ExpDiv1000(w) \in 0..3 =>
                 <<h.info.has_z, h.info.has_m>> = ExpDims(ExpDiv1000(w))

\* C8 witness: a header with little-endian flags and a big-endian embedded
\* MultiLineString ZM was decoded; the returned byte order is little-endian.
C8_Witness ==
    /\ hdrs # <<>>
    /\ hdrs[1].by = "read_gpkg_header"
    /\ hdrs[1].res = "Ok"
    /\ stream[4] % 2 = 1
    /\ stream[hdrs[1].end - 4] = 0
    /\ hdrs[1].info.endian = "LE"
    /\ hdrs[1].info.base_type = "MultiLineString"
    /\ hdrs[1].info.has_z /\ hdrs[1].info.has_m
    /\ Len(hdrs[1].info.envelope) = 6

\* C9: envelope selectors 0, 1, 2, 3, 4 yield an envelope of exactly 0, 4,
\* 6, 6, 8 doubles read under the flag byte order after the SRID, and
\* selectors 5, 6, 7 are rejected with GeometryFormat, whatever the empty
\* and extended bits.
C9_EnvelopeLength ==
    \A k \in HeadersBy("read_gpkg_header") :
      LET h == hdrs[k] IN
      (Len(stream) >= h.at + 4 /\ stream[h.at + 1] = 71 /\ stream[h.at + 2] = 80) =>
        LET flags == stream[h.at + 4]
            sel == (flags \div 2) % 8
            e == IF flags % 2 = 0 THEN "BE" ELSE "LE"
        IN  IF sel >= 5
            THEN h.res = "GeometryFormat"
            ELSE /\ h.res # "GeometryFormat"
                 /\ (h.res = "Ok") <=> (Len(stream) >= h.at + 8 + 8 * ExpEnvLen(sel) + 5)
                 /\ h.res = "Ok" =>
                      /\ Len(h.info.envelope) = ExpEnvLen(sel)
                      /\ h.end = h.at + 8 + 8 * ExpEnvLen(sel) + 5
                      /\ \A j \in 1..ExpEnvLen(sel) :
                           h.info.envelope[j] = ExpF64(stream, h.at + 8 * j, e)

\* C9 witness: flags with selector 4 and both the empty and the extended
\* bit set were decoded with an envelope of 8 doubles.
C9_Witness ==
    /\ hdrs # <<>>
    /\ hdrs[1].by = "read_gpkg_header"
    /\ hdrs[1].res = "Ok"
    /\ stream[4] = 57
    /\ Len(hdrs[1].info.envelope) = 8

(***************************************************************************)
(* Claims about the walk                                                   *)
(***************************************************************************)

\* Byte order and (has_z, has_m) a decoded header announces, from its bytes.
ExpHdrOrder(h) ==
    IF h.by = "read_gpkg_header"
    THEN (IF stream[h.at + 4] % 2 = 0 THEN "BE" ELSE "LE")
    ELSE ExpOrder(stream[h.at + 1])

ExpHdrDims(h) ==
    LET a == IF h.by = "read_gpkg_header" THEN h.end - 5 ELSE h.at
        w == ExpWord(stream, a + 1, ExpOrder(stream[a + 1]))
    IN  IF h.by = "read_ewkb_header"
        THEN <<w[1] >= 128, (w[1] % 128) >= 64>>
        ELSE ExpDims(ExpDiv1000(w))

CoordCalls == { c \in 1..Len(calls) : calls[c].fn \in {"xy", "coordinate"} }

\* The ordinate reads made for the c-th callback: those after callback c - 1.
OrdinateReads(c) == { k \in 1..Len(reads) : reads[k].w = 8 /\ reads[k].nc = c - 1 }

Min(S) == CHOOSE x \in S : \A y \in S : x <= y

\* C1: if a processor callback returns an error, the walk stops at that
\* call: the entry point returns that same error and the failing callback is
\* the last one the processor receives, at any nesting depth.
C1_CallbackErrorStopsWalk ==
    procErr # NoErr =>
        /\ result = procErr.err
        /\ Len(calls) = procErr.at
        /\ stack = <<>>

\* C1 witness: a coordinate callback inside a ring of a Polygon inside a
\* GeometryCollection failed, and the walk returned that error.
C1_Witness ==
    /\ procErr # NoErr
    /\ result = procErr.err
    /\ Len(calls) = procErr.at
    /\ calls[Len(calls)].fn \in {"xy", "coordinate"}
    /\ \E a, b, c \in 1..Len(calls) :
         /\ a < b /\ b < c
         /\ calls[a].fn = "geometrycollection_begin"
         /\ calls[b].fn = "polygon_begin"
         /\ calls[c].fn = "linestring_begin"
         /\ \A d \in c + 1 .. Len(calls) : calls[d].fn \in {"xy", "coordinate"}

\* C2 (as claimed): in a GPKG walk the counts and coordinates of the
\* embedded geometry are read under the byte order the embedded OGC body
\* declares, the GPKG flag governing only SRID and envelope.
C2_InnerByteOrderGoverns ==
    (hdrs # <<>> /\ hdrs[1].by = "read_gpkg_header" /\ hdrs[1].res = "Ok") =>
        \A k \in 1..Len(reads) :
            reads[k].nh = 1 => reads[k].endian = ExpOrder(stream[hdrs[1].end - 4])

UnsupportedKinds == {"Triangle", "PolyhedralSurface", "TIN", "Unknown"}

\* The dispatch function was invoked with the k-th header decoded.
DispatchedWith(k) ==
    /\ hdrs[k].role \in {"top", "dispatch"}
    /\ hdrs[k].res = "Ok"

\* C3: when process_wkb_geom_n is invoked with a header (top-level or a
\* GeometryCollection child) of kind Triangle, PolyhedralSurface, TIN or
\* Unknown, it fails with GeometryFormat, nothing more is decoded and no
\* callback is made for that element (none at all for a top-level header).
C3_UnsupportedKind ==
    /\ [](\A k \in 1..Len(hdrs) :
            (DispatchedWith(k) /\ hdrs[k].info.base_type \in UnsupportedKinds) =>
                /\ k = Len(hdrs)
                /\ Len(calls) = hdrs[k].nc
                /\ \A j \in 1..Len(reads) : reads[j].nh < k
                /\ pos = hdrs[k].end
                /\ result \in {"running", "GeometryFormat"}
                /\ result = "running" => stack # <<>>)
    /\ [][(/\ hdrs # <<>>
           /\ DispatchedWith(Len(hdrs))
           /\ hdrs[Len(hdrs)].info.base_type \in UnsupportedKinds
           /\ result = "running")
          => (result' = "GeometryFormat" /\ calls' = calls)]_vars

\* C3 witness: a GeometryCollection child of unsupported kind was
\* dispatched after an earlier child had been delivered, and the walk
\* failed with GeometryFormat.
C3_Witness ==
    /\ result = "GeometryFormat"
    /\ Len(hdrs) >= 3
    /\ hdrs[Len(hdrs)].role = "dispatch"
    /\ hdrs[Len(hdrs)].res = "Ok"
    /\ hdrs[Len(hdrs)].info.base_type \in UnsupportedKinds
    /\ Len(calls) >= 4
    /\ Len(calls) = hdrs[Len(hdrs)].nc

\* C4: in a composite walk the element count is read under the parent
\* header's byte order, and each child's counts and coordinates are read
\* under the byte order and has_z/has_m of that child's own freshly decoded
\* header, in stream order: every body read directly follows the header
\* decoded last (or the previous read under it) and uses its byte order, and
\* every coordinate takes 2 + has_z + has_m ordinates of that header.
C4_ChildOwnHeader ==
    /\ \A k \in 1..Len(reads) :
         LET r == reads[k] IN
         /\ r.nh >= 1
         /\ hdrs[r.nh].res = "Ok"
         /\ r.endian = ExpHdrOrder(hdrs[r.nh])
         /\ r.at = IF k > 1 /\ reads[k - 1].nh = r.nh
                   THEN reads[k - 1].at + reads[k - 1].w
                   ELSE hdrs[r.nh].end
    /\ \A c \in CoordCalls :
         /\ OrdinateReads(c) # {}
         /\ \A j, k \in OrdinateReads(c) : reads[j].nh = reads[k].nh
         /\ LET d == ExpHdrDims(hdrs[reads[Min(OrdinateReads(c))].nh]) IN
            Cardinality(OrdinateReads(c)) =
                2 + (IF d[1] THEN 1 ELSE 0) + (IF d[2] THEN 1 ELSE 0)
    /\ \A k \in 2..Len(hdrs) :
         /\ hdrs[k].role # "top"
         /\ hdrs[k].by = read_header
         /\ hdrs[k].at >= hdrs[k - 1].end

\* C4 witness: a composite was walked to the end whose first child differs
\* from the parent in byte order and whose children differ from each other
\* in byte order and in dimensions, each with data read under it.
C4_Witness ==
    /\ result = "Ok"
    /\ Len(hdrs) >= 3
    /\ hdrs[1].info.endian # hdrs[2].info.endian
    /\ hdrs[2].info.endian # hdrs[3].info.endian
    /\ <<hdrs[2].info.has_z, hdrs[2].info.has_m>> # <<hdrs[3].info.has_z, hdrs[3].info.has_m>>
    /\ \A n \in 1..3 : \E k \in 1..Len(reads) : reads[k].nh = n

\* C5: for every coordinate process_coord consumes exactly 2 + has_z + has_m
\* doubles in the order x, y, z, m, whatever the processor tracks, and then
\* makes exactly one call: coordinate(x, y, z, m, None, None, idx) if the
\* processor's dimensions report z or m, otherwise xy(x, y, idx).
C5_Coordinate ==
    /\ \A c \in CoordCalls :
         LET R == OrdinateReads(c)
             a == reads[Min(R)].at
             e == reads[Min(R)].endian
             info == hdrs[reads[Min(R)].nh].info
             nz == IF info.has_z THEN 1 ELSE 0
             nm == IF info.has_m THEN 1 ELSE 0
             x == ExpF64(stream, a, e)
             y == ExpF64(stream, a + 8, e)
             z == IF info.has_z THEN <<ExpF64(stream, a + 16, e)>> ELSE <<>>
             m == IF info.has_m THEN <<ExpF64(stream, a + 16 + 8 * nz, e)>> ELSE <<>>
         IN  /\ R # {}
             /\ Cardinality(R) = 2 + nz + nm
             /\ { reads[k].at : k \in R } = { a + 8 * j : j \in 0 .. 1 + nz + nm }
             /\ \A k \in R : reads[k].endian = e
             /\ IF dims.z \/ dims.m
                THEN calls[c].fn = "coordinate" /\ calls[c].coord = <<x, y, z, m>>
                ELSE calls[c].fn = "xy" /\ calls[c].coord = <<x, y>>
    /\ \A k \in 1..Len(reads) :
         reads[k].w = 8 =>
            IF reads[k].nc < Len(calls)
            THEN reads[k].nc + 1 \in CoordCalls
            ELSE result = "IoError"
    /\ (result = "Ok" /\ reads # <<>>) =>
         pos = reads[Len(reads)].at + reads[Len(reads)].w

\* C5 witness: a coordinate with Z and M was read for a processor that
\* tracks neither: four doubles were consumed and xy was called.
C5_Witness ==
    \E c \in CoordCalls :
        /\ calls[c].fn = "xy"
        /\ Cardinality(OrdinateReads(c)) = 4
        /\ ~dims.z /\ ~dims.m

\* s is a prefix of f and shorter.
ProperPrefix(s, f) == Len(s) < Len(f) /\ s = SubSeq(f, 1, Len(s))

GpkgWalkOver ==
    /\ hdrs # <<>>
    /\ hdrs[1].by = "read_gpkg_header"
    /\ result # "running"
    /\ procErr = NoErr

C11_BadMagic ==
    (/\ hdrs # <<>>
     /\ hdrs[1].by = "read_gpkg_header"
     /\ Len(stream) >= 2
     /\ ~(stream[1] = 71 /\ stream[2] = 80)) =>
        /\ result = "GeometryFormat"
        /\ hdrs[1].res = "GeometryFormat"
        /\ hdrs[1].end = 2
        /\ pos = 2
        /\ Len(hdrs) = 1
        /\ calls = <<>>
        /\ reads = <<>>
        /\ stack = <<>>

\* C11 witness: a stream that starts with "GQ" and goes on as a well-formed
\* GPKG Point was rejected by process_gpkg_geom after its first two bytes.
C11_Witness ==
    /\ hdrs # <<>>
    /\ hdrs[1].by = "read_gpkg_header"
    /\ Len(stream) > 20
    /\ stream[1] = 71 /\ stream[2] = 81
    /\ result = "GeometryFormat"
    /\ pos = 2
    /\ calls = <<>>

(***************************************************************************)
(* Claims about the shape of the callback sequence                         *)
(***************************************************************************)

CountedBegins ==
    {"linestring_begin", "polygon_begin", "multipoint_begin",
     "multilinestring_begin", "multipolygon_begin", "geometrycollection_begin"}

BeginFns == CountedBegins \cup {"point_begin"}

CoordFns == {"xy", "coordinate"}

\* The end callback that closes a begin callback.
EndOf(b) ==
    CASE b = "point_begin" -> "point_end"
      [] b = "linestring_begin" -> "linestring_end"
      [] b = "polygon_begin" -> "polygon_end"
      [] b = "multipoint_begin" -> "multipoint_end"
      [] b = "multilinestring_begin" -> "multilinestring_end"
      [] b = "multipolygon_begin" -> "multipolygon_end"
      [] b = "geometrycollection_begin" -> "geometrycollection_end"

\* The callbacks that may stand directly between a begin and its end.
ItemsOf(b) ==
    CASE b \in {"point_begin", "linestring_begin", "multipoint_begin"} -> CoordFns
      [] b = "polygon_begin" -> {"linestring_begin"}
      [] b = "multilinestring_begin" -> {"linestring_begin"}
      [] b = "multipolygon_begin" -> {"polygon_begin"}
      [] b = "geometrycollection_begin" -> BeginFns

\* An open begin: the callback and the number of its items seen so far.
Open(c) == [call |-> c, seen |-> 0]

\* The callback c is the next item of the innermost open begin (or, with
\* nothing open, the first callback and the begin of the top-level geometry).
NextItem(c, open, k) ==
    IF open = <<>> THEN k = 1 /\ c.fn \in BeginFns /\ c.idx = 0
    ELSE LET o == open[Len(open)] IN
         /\ c.fn \in ItemsOf(o.call.fn)
         /\ c.idx = o.seen
         /\ IF o.call.fn \in CountedBegins
            THEN o.call.n[1] = 0 /\ o.seen < ExpLow24(o.call.n)
            ELSE o.seen = 0

\* The end callback c closes the innermost open begin after all its items.
Closes(c, open) ==
    /\ open # <<>>
    /\ LET o == open[Len(open)] IN
       /\ c.fn = EndOf(o.call.fn)
       /\ c.idx = o.call.idx
       /\ IF o.call.fn \in CountedBegins
          THEN o.call.n = <<0, 0, 0, o.seen>>
          ELSE o.seen = 1

SawItem(open) ==
    IF open = <<>> THEN open
    ELSE [open EXCEPT ![Len(open)].seen = open[Len(open)].seen + 1]

\* calls[k..] continues a properly nested sequence whose open begins are
\* `open` (innermost last), and closes them all.
RECURSIVE Nested(_, _)
Nested(k, open) ==
    IF k > Len(calls) THEN open = <<>>
    ELSE LET c == calls[k] IN
         IF c.fn \in BeginFns
         THEN NextItem(c, open, k) /\ Nested(k + 1, Append(SawItem(open), Open(c)))
         ELSE IF c.fn \in CoordFns
         THEN open # <<>> /\ NextItem(c, open, k) /\ Nested(k + 1, SawItem(open))
         ELSE Closes(c, open) /\ Nested(k + 1, SubSeq(open, 1, Len(open) - 1))

\* C12: on every successful walk the callbacks form a properly nested
\* sequence: every begin is matched by the end of the same kind and index,
\* the top-level geometry has index 0, each begin announcing a count n is
\* followed before its end by exactly n items with indices 0..n-1 in
\* increasing order, and items are delivered in stream order (callbacks made
\* later are fed by bytes further on in the stream).
C12_ProperNesting ==
    result = "Ok" =>
        /\ calls # <<>>
        /\ Nested(1, <<>>)
        /\ \A j, k \in 1..Len(reads) :
             j < k => reads[j].at < reads[k].at /\ reads[j].nc <= reads[k].nc
        /\ \A j, k \in 1..Len(hdrs) :
             j < k => hdrs[j].at < hdrs[k].at /\ hdrs[j].nc <= hdrs[k].nc

\* C12 witness: a GeometryCollection of three children, the third a nested
\* GeometryCollection holding a Polygon, was walked to the end.
C12_Witness ==
    /\ result = "Ok"
    /\ calls[1].fn = "geometrycollection_begin"
    /\ calls[1].n = <<0, 0, 0, 3>>
    /\ \E a, b, c \in 2..Len(calls) :
         /\ a < b /\ b < c
         /\ calls[a].fn = "linestring_begin" /\ calls[a].idx = 1
         /\ calls[b].fn = "geometrycollection_begin" /\ calls[b].idx = 2
         /\ calls[c].fn = "polygon_begin" /\ calls[c].idx = 0
    /\ calls[Len(calls)].fn = "geometrycollection_end"

\* Positions in calls of the begins still open just before the k-th callback,
\* innermost last.
RECURSIVE OpenBefore(_)
OpenBefore(k) ==
    IF k <= 1 THEN <<>>
    ELSE LET o == OpenBefore(k - 1)
             c == calls[k - 1]
         IN  IF c.fn \in BeginFns THEN Append(o, k - 1)
             ELSE IF c.fn \in CoordFns THEN o
             ELSE SubSeq(o, 1, Len(o) - 1)

\* The begin callback enclosing the k-th callback, "none" at top level.
ParentFn(k) ==
    LET o == OpenBefore(k) IN
    IF o = <<>> THEN "none" ELSE calls[o[Len(o)]].fn

TaggedBegins == {"linestring_begin", "polygon_begin"}
TaggedEnds == {"linestring_end", "polygon_end"}

\* The k-th callback is the first one made for a geometry whose header was
\* handed to the dispatch function (top level or GeometryCollection child).
OwnGeometry(k) ==
    \E h \in 1..Len(hdrs) :
        /\ hdrs[h].role \in {"top", "dispatch"}
        /\ hdrs[h].res = "Ok"
        /\ hdrs[h].nc = k - 1
        /\ hdrs[h].info.base_type \in {"LineString", "Polygon"}
        /\ \A g \in h + 1 .. Len(hdrs) : hdrs[g].nc >= k

\* C13: linestring_begin/end and polygon_begin/end carry tagged = true
\* exactly when the LineString or Polygon is dispatched as a geometry in its
\* own right (top level or GeometryCollection child) and tagged = false for
\* every Polygon ring and every child of a MultiLineString or MultiPolygon;
\* a begin and its matching end carry the same tagged value.
C13_Tagged ==
    \A k \in 1..Len(calls) :
        /\ calls[k].fn \in TaggedBegins =>
             /\ calls[k].tagged <=> OwnGeometry(k)
             /\ calls[k].tagged <=> ParentFn(k) \in {"none", "geometrycollection_begin"}
             /\ ~calls[k].tagged <=>
                  ParentFn(k) \in {"polygon_begin", "multilinestring_begin",
                                   "multipolygon_begin"}
        /\ calls[k].fn \in TaggedEnds =>
             LET o == OpenBefore(k) IN
             /\ o # <<>>
             /\ calls[k].fn = EndOf(calls[o[Len(o)]].fn)
             /\ calls[k].tagged = calls[o[Len(o)]].tagged

\* C13 witness: in one walk a LineString and a Polygon that are
\* GeometryCollection children were announced and closed with tagged = true
\* and the Polygon's ring with tagged = false.
C13_Witness ==
    \E a, b, c, d \in 1..Len(calls) :
        /\ a < b /\ b < c /\ c < d
        /\ calls[a].fn = "linestring_end" /\ calls[a].tagged
        /\ ParentFn(a) = "linestring_begin"
        /\ calls[b].fn = "polygon_begin" /\ calls[b].tagged
        /\ ParentFn(b) = "geometrycollection_begin"
        /\ calls[c].fn = "linestring_end" /\ ~calls[c].tagged
        /\ calls[d].fn = "polygon_end" /\ calls[d].tagged

\* C14: the header decoder the entry point chose decodes every child header
\* at every nesting depth: after process_ewkb_geom all child headers follow
\* the EWKB rules (low-byte kind, flag bits, the 4-byte SRID consumed when
\* flagged), after process_gpkg_geom all follow the plain OGC rules (code
\* mod 1000, code div 1000, 5 bytes), never the GPKG or EWKB rules.
C14_ChildDecoder ==
    \A k \in 2..Len(hdrs) :
      LET h == hdrs[k]
          ewkb == hdrs[1].by = "read_ewkb_header"
      IN
      /\ h.role # "top"
      /\ hdrs[1].by \in {"read_ewkb_header", "read_gpkg_header"}
      /\ h.by = IF ewkb THEN "read_ewkb_header" ELSE "read_wkb_header"
      /\ Len(stream) < h.at + 5 => h.res = "IoError"
      /\ Len(stream) >= h.at + 5 =>
           LET e == ExpOrder(stream[h.at + 1])
               w == ExpWord(stream, h.at + 1, e)
               sridBit == (w[1] % 64) >= 32
           IN
           IF ewkb
           THEN /\ (h.res = "Ok") <=> (sridBit => Len(stream) >= h.at + 9)
                /\ h.res = "Ok" =>
                     /\ h.info.endian = e
                     /\ h.info.base_type = ExpKind(w[4])
                     /\ <<h.info.has_z, h.info.has_m>> = <<w[1] >= 128, (w[1] % 128) >= 64>>
                     /\ h.info.srid = IF sridBit
                                      THEN <<ExpI32(ExpWord(stream, h.at + 5, e))>>
                                      ELSE <<>>
                     /\ h.end = h.at + (IF sridBit THEN 9 ELSE 5)
           ELSE /\ h.res = "Ok"
                /\ h.info.endian = e
                /\ h.info.base_type = ExpKind(ExpMod1000(w))
                /\ ExpDiv1000(w) \in 0..3 =>
                     <<h.info.has_z, h.info.has_m>> = ExpDims(ExpDiv1000(w))
                /\ h.info.srid = <<>>
                /\ h.info.envelope = <<>>
                /\ h.end = h.at + 5

\* C14 witness: a GPKG walk decoded a child header two levels down whose
\* code (1002) reads as LineString Z under the OGC rules only, and ended Ok.
C14_Witness ==
    /\ result = "Ok"
    /\ Len(hdrs) >= 3
    /\ hdrs[1].by = "read_gpkg_header"
    /\ hdrs[2].role = "dispatch" /\ hdrs[2].info.base_type = "GeometryCollection"
    /\ hdrs[3].role = "dispatch" /\ hdrs[3].by = "read_wkb_header"
    /\ hdrs[3].info.base_type = "LineString" /\ hdrs[3].info.has_z
    /\ hdrs[3].end = hdrs[3].at + 5

\* One pass over calls[1..k]: the positions of the begins still open after
\* the k-th callback (innermost last) and, for each callback, the position
\* of the begin enclosing it (0 at top level).
RECURSIVE Scan(_)
Scan(k) ==
    IF k = 0 THEN [open |-> <<>>, parent |-> <<>>]
    ELSE LET s == Scan(k - 1)
             c == calls[k]
             p == IF s.open = <<>> THEN 0 ELSE s.open[Len(s.open)]
         IN  [open |-> IF c.fn \in BeginFns THEN Append(s.open, k)
                       ELSE IF c.fn \in CoordFns THEN s.open
                       ELSE SubSeq(s.open, 1, Len(s.open) - 1),
              parent |-> Append(s.parent, p)]

\* Every begin that announced a count and is not closed yet has delivered at
\* most one item per 4 bytes consumed since its count was read.
ItemsPaidFor ==
    LET sc == Scan(Len(calls)) IN
    \A o \in 1..Len(sc.open) :
        LET c == sc.open[o]
            items == Cardinality({ j \in 1..Len(calls) :
                                     sc.parent[j] = c /\ calls[j].fn \in BeginFns \cup CoordFns })
        IN  calls[c].fn \in CountedBegins =>
              /\ \E r \in 1..Len(reads) : reads[r].w = 4 /\ reads[r].nc = c - 1
              /\ \A r \in 1..Len(reads) :
                   (reads[r].w = 4 /\ reads[r].nc = c - 1) =>
                       pos >= reads[r].at + 4 + 4 * items

\* What an activation may still do before it consumes a byte or returns:
\* an activation of process_wkb_geom_n that has not dispatched yet has the
\* most steps ahead of it, an activation waiting for its callee the fewest.
FrameWeight(f, top) ==
    CASE f.pc = "enter" -> (IF f.fn = "process_wkb_geom_n" THEN 5 ELSE 1)
      [] f.pc = "coord" -> 4
      [] f.pc = "end" -> 3
      [] f.pc = "call" -> 1
      [] f.pc = "loop" -> (IF top THEN 3 ELSE 1)

RECURSIVE StackWeight(_)
StackWeight(k) ==
    IF k = 0 THEN 0 ELSE FrameWeight(stack[k], k = Len(stack)) + StackWeight(k - 1)

\* Bytes left in the stream plus the steps the open activations can make
\* without reading; 0 once the entry point has returned.
Variant ==
    IF result # "running" THEN 0
    ELSE (Len(stream) - pos) + StackWeight(Len(stack)) + (IF stack = <<>> THEN 1 ELSE 0)

\* A walk that has not returned stands at a statement of the code: before
\* the call of the entry point, or in an activation at one of its steps.
HasNextStep ==
    IF stack = <<>> THEN hdrs = <<>>
    ELSE IF Top.fn = "process_wkb_geom_n"
    THEN \/ Top.pc = "enter"
         \/ Top.pc \in {"coord", "end"} /\ Top.info.base_type = "Point"
         \/ Top.pc = "loop" /\ Top.info.base_type \in
                {"MultiPoint", "MultiLineString", "MultiPolygon", "GeometryCollection"}
    ELSE Top.pc \in {"enter", "loop"}

\* C15: process_ewkb_geom and process_gpkg_geom terminate, with success or
\* an error, whatever element, ring and point counts the data declares: each
\* loop iteration and each recursive call consumes at least 4 bytes or
\* fails, so the callbacks made and the recursion depth never exceed the
\* number of bytes consumed, which never exceeds the stream length; every
\* step of a walk strictly decreases a natural-number measure of the bytes
\* left, so no walk goes on for ever, and a walk that has not returned has
\* an activation to run.
C15_Terminates ==
    /\ [](/\ pos <= Len(stream)
          /\ Len(calls) <= pos
          /\ Len(stack) <= pos
          /\ ItemsPaidFor
          /\ Variant >= 0
          /\ result = "running" => HasNextStep)
    /\ [][Variant' < Variant]_vars

\* C15 witness: a walk of a stream that declares 2^32 - 1 elements delivered
\* the elements the stream holds and then returned an I/O error at its end.
C15_Witness ==
    /\ result = "IoError"
    /\ procErr = NoErr
    /\ pos = Len(stream)
    /\ Len(calls) >= 5
    /\ calls[1].n = <<255, 255, 255, 255>>

MultiRoles == {"multipoint", "multilinestring", "multipolygon"}

\* The count in the 4 bytes after the header h, under that header's order.
CountAfter(h) == ExpWord(stream, h.end, ExpOrder(stream[h.at + 1]))

\* C16: for the children of a MultiPoint, MultiLineString or MultiPolygon
\* the kind in the child's header is never examined: the child is decoded as
\* a bare coordinate, a LineString body or a Polygon body respectively
\* whatever kind its header declares, no geometry-format error is raised
\* because of it, and a MultiPoint child produces only a coordinate callback,
\* without point_begin and point_end.
C16_ChildKindIgnored ==
    /\ \A k \in 1..Len(hdrs) :
         LET h == hdrs[k] IN
         (h.role \in MultiRoles /\ h.res = "Ok") =>
            /\ (k = Len(hdrs) /\ Len(calls) = h.nc) => result \in {"running", "IoError"}
            /\ (k = Len(hdrs) /\ result = "running" /\ Len(calls) = h.nc) => pos = h.end
            /\ Len(calls) > h.nc =>
                 LET c == calls[h.nc + 1] IN
                 CASE h.role = "multipoint" -> c.fn \in CoordFns
                   [] h.role = "multilinestring" ->
                        /\ c.fn = "linestring_begin" /\ ~c.tagged
                        /\ c.n = CountAfter(h)
                   [] h.role = "multipolygon" ->
                        /\ c.fn = "polygon_begin" /\ ~c.tagged
                        /\ c.n = CountAfter(h)
    /\ (hdrs # <<>> /\ hdrs[Len(hdrs)].role \in MultiRoles /\ hdrs[Len(hdrs)].res = "Ok") =>
         result # "GeometryFormat"
    /\ LET sc == Scan(Len(calls)) IN
       \A j \in 1..Len(calls) :
         (sc.parent[j] > 0 /\ calls[sc.parent[j]].fn = "multipoint_begin") =>
            calls[j].fn \in CoordFns \cup {"multipoint_end"}

\* C16 witness: a MultiPoint whose three children declare the kinds
\* LineString, TIN and Unknown was walked to the end with three coordinate
\* callbacks between multipoint_begin and multipoint_end.
C16_Witness ==
    /\ result = "Ok"
    /\ Len(hdrs) = 4
    /\ hdrs[1].info.base_type = "MultiPoint"
    /\ \A k \in 2..4 : hdrs[k].role = "multipoint"
    /\ hdrs[2].info.base_type = "LineString"
    /\ hdrs[3].info.base_type = "TIN"
    /\ hdrs[4].info.base_type = "Unknown"
    /\ Len(calls) = 5
    /\ \A j \in 2..4 : calls[j].fn \in CoordFns /\ calls[j].idx = j - 2

====
